---- MODULE Spec2Model ----
(***************************************************************************)
(* The admin dashboard's status-transition-to-notification pipeline:       *)
(*   src/src/App.jsx          App: fetchAppointments, updateStatus, the    *)
(*                            mount effect with the change subscription    *)
(*   src/src/lib/whatsapp.js  sendWhatsAppMessage, sendStatusUpdateMessage *)
(*                                                                         *)
(* App.jsx holds two versions of App one after the other; the model follows *)
(* the second (lines 421-883), the one that imports the notifier.          *)
(*                                                                         *)
(* JavaScript values.  An optional value (null / undefined / absent) is    *)
(* the empty tuple, a present value x is <<x>>.  A text whose characters   *)
(* matter (a phone number) is a sequence of one-character strings; other   *)
(* texts are strings.  A call's outcome is [kind |-> "return", value] or   *)
(* [kind |-> "throw", error]; a call suspended at an await on the network  *)
(* is [kind |-> "await", request].                                         *)
(***************************************************************************)
EXTENDS Integers, Sequences, FiniteSets, TLC

\* ---------------------------------------------------------------- bounds
\* operations started in one run: fetchAppointments calls (mount, button,
\* change events), updateStatus calls and changes by other writers
MaxCalls == 3
\* most digits in a destination handed to sendWhatsAppMessage directly
MaxDigits == 11

\* ---------------------------------------------------------------- values
None == << >>

Some(x) == <<x>>

Statuses == {"pending", "confirmed", "completed", "cancelled"}

\* the ids of the records that exist in this run, oldest first
IdOrder == <<"a1", "a2">>

Ids == {IdOrder[i] : i \in 1..Len(IdOrder)}

\* the immutable columns of each record (the status is the only mutable one)
Profile(id) ==
    IF id = "a1"
    THEN [full_name |-> "Asha",
          phone |-> Some(<<"9","8","7","6","5","4","3","2","1","0">>),
          preferred_date |-> Some([y |-> 2026, m |-> 11, d |-> 10]),
          location |-> Some("Pune")]
    ELSE [full_name |-> "Ravi",
          phone |-> None,
          preferred_date |-> None,
          location |-> None]

Row(id, status) ==
    [id |-> id, status |-> status,
     full_name |-> Profile(id).full_name,
     phone |-> Profile(id).phone,
     preferred_date |-> Profile(id).preferred_date,
     location |-> Profile(id).location]

\* ------------------------------------------------------------ variables
VARIABLES
    WHATSAPP_TOKEN,   \* whatsapp.js:8, import.meta.env.VITE_WHATSAPP_TOKEN
    PHONE_NUMBER_ID,  \* whatsapp.js:9, import.meta.env.VITE_WHATSAPP_PHONE_NUMBER_ID
    store,            \* the appointments table: id -> [present, status]
    phase,            \* "constructed" | "mounted" | "unmounted" (the effect)
    events,           \* change events raised by the table, not yet delivered
    appointments,     \* App.jsx:431 useState([])
    loading,          \* App.jsx:432 useState(true)
    error,            \* App.jsx:433 useState(null)
    refreshing,       \* App.jsx:435 useState(false)
    fetches,          \* the fetchAppointments calls, by start order
    updates,          \* the updateStatus calls, by start order
    external,         \* number of changes other writers made to the table
    probe             \* a direct call of the whatsapp.js exports (harness)

vars ==
    <<WHATSAPP_TOKEN, PHONE_NUMBER_ID, store, phase, events, appointments,
      loading, error, refreshing, fetches, updates, external, probe>>

\* ------------------------------------------------- outcomes of a call
Return(v) == [kind |-> "return", value |-> v]

Throw(e) == [kind |-> "throw", error |-> e]

Await(r) == [kind |-> "await", request |-> r]

\* JavaScript truthiness of an optional string: null, undefined and "" are falsy
Truthy(v) == v # None /\ v[1] # ""

\* `${v}` of a template literal: a null column prints as "null"
Interpolate(v) == IF v = None THEN "null" ELSE v[1]

\* `${v}` of an environment value: an unset one prints as "undefined"
InterpolateEnv(v) == IF v = None THEN "undefined" ELSE v[1]

\* ------------------------------------------- whatsapp.js: the channel
VERSION == "v18.0"

IsDigit(c) == c \in {"0", "1", "2", "3", "4", "5", "6", "7", "8", "9"}

\* to.replace(/\D/g, ''): every character that is not a digit is removed
RECURSIVE cleanPhone(_)
cleanPhone(to) ==
    IF to = << >> THEN << >>
    ELSE (IF IsDigit(Head(to)) THEN <<Head(to)>> ELSE << >>) \o cleanPhone(Tail(to))

\* mutant: the prefix is added to every text of 10 digits or more
formattedPhoneAtLeast(clean) ==
    IF Len(clean) >= 10 THEN <<"9", "1">> \o clean ELSE clean

\* cleanPhone.length === 10 ? `91${cleanPhone}` : cleanPhone
formattedPhone(clean) ==
    IF Len(clean) = 10 THEN <<"9", "1">> \o clean ELSE clean

\* the fetch() call of lines 31-43
Request(to, message) ==
    [url |-> "https://graph.facebook.com/" \o VERSION \o "/"
                \o InterpolateEnv(PHONE_NUMBER_ID) \o "/messages",
     method |-> "POST",
     authorization |-> "Bearer " \o InterpolateEnv(WHATSAPP_TOKEN),
     messaging_product |-> "whatsapp",
     to |-> to,
     type |-> "text",
     body |-> message]

\* mutant: the guard fires only when both values are missing
CredentialsMissingBoth == ~Truthy(WHATSAPP_TOKEN) /\ ~Truthy(PHONE_NUMBER_ID)

\* the guard of lines 18-21
CredentialsMissing == ~Truthy(WHATSAPP_TOKEN) \/ ~Truthy(PHONE_NUMBER_ID)

\* mutant: the catch block rethrows
CatchRethrows(outcome) == outcome

\* catch (error) { return { success: false, error } } of lines 53-56
Catch(outcome) ==
    IF outcome.kind = "throw"
    THEN Return(Some([success |-> FALSE, error |-> outcome.error]))
    ELSE outcome

\* the try block up to the await of fetch: a destination that is no string
\* has no replace method, so line 25 throws a TypeError
TryRequest(to, message) ==
    IF to = None THEN Throw("TypeError")
    ELSE Await(Request(formattedPhone(cleanPhone(to[1])), message))

\* mutant: response.ok is not tested
TryResponseIgnoresOk(response) ==
    IF response.t = "reject" THEN Throw(response.error)
    ELSE IF response.json = None THEN Throw("SyntaxError")
    ELSE Return(Some([success |-> TRUE, data |-> response.json[1]]))

\* the try block from the resolution of fetch on (lines 31, 45-52)
TryResponse(response) ==
    IF response.t = "reject" THEN Throw(response.error)
    ELSE IF response.json = None THEN Throw("SyntaxError")
    ELSE IF ~response.ok
         THEN Return(Some([success |-> FALSE, error |-> response.json[1]]))
         ELSE Return(Some([success |-> TRUE, data |-> response.json[1]]))

\* mutant: the normalisation and the request are outside the try block
sendWhatsAppMessageNoTry(to, message) ==
    IF CredentialsMissing
    THEN Return(Some([success |-> FALSE, error |-> "Credentials missing"]))
    ELSE TryRequest(to, message)

\* sendWhatsAppMessage(to, message) up to its first suspension
sendWhatsAppMessage(to, message) ==
    IF CredentialsMissing
    THEN Return(Some([success |-> FALSE, error |-> "Credentials missing"]))
    ELSE Catch(TryRequest(to, message))

\* mutant: a failed request is sent again
sendWhatsAppMessageResumeRetries(response) ==
    IF response.t = "reject" \/ response.json = None \/ ~response.ok
    THEN Await([url |-> "retry"])
    ELSE Return(Some([success |-> TRUE, data |-> response.json[1]]))

\* sendWhatsAppMessage from the settling of its fetch to its return
sendWhatsAppMessageResume(response) == Catch(TryResponse(response))

\* what the provider and the network can answer to one request: a response
\* of either kind with a JSON body or with a body that response.json()
\* rejects, or no response at all
Responses ==
    { [t |-> "response", ok |-> TRUE, json |-> Some("message accepted")],
      [t |-> "response", ok |-> FALSE, json |-> Some("provider error")],
      [t |-> "response", ok |-> TRUE, json |-> None],
      [t |-> "response", ok |-> FALSE, json |-> None],
      [t |-> "reject", error |-> "NetworkError"] }

\* ------------------------------------------ whatsapp.js: the notifier
\* new Date(preferred_date).toLocaleDateString(), in the en-US form m/d/y
\* of a host whose time zone is not behind UTC
toLocaleDateString(date) ==
    ToString(date.m) \o "/" \o ToString(date.d) \o "/" \o ToString(date.y)

\* mutant: the date is formatted without the test for an absent one
dateStrNoPlaceholder(preferred_date) ==
    IF preferred_date # None THEN toLocaleDateString(preferred_date[1])
    ELSE "Invalid Date"

\* line 66
dateStr(preferred_date) ==
    IF preferred_date # None THEN toLocaleDateString(preferred_date[1])
    ELSE "the requested date"

\* mutant: the default case leaves the switch with the empty message
messageDefaultBreaks(appointment, status) ==
    IF status = "confirmed"
    THEN Some("Hello " \o appointment.full_name
              \o ", your appointment with Dr. Vaibbhav Guray on "
              \o dateStr(appointment.preferred_date) \o " at our "
              \o Interpolate(appointment.location)
              \o " center has been CONFIRMED. We look forward to seeing you!")
    ELSE IF status = "cancelled"
    THEN Some("Hello " \o appointment.full_name
              \o ", we are sorry to inform you that your appointment with Dr. Vaibbhav Guray on "
              \o dateStr(appointment.preferred_date)
              \o " has been CANCELLED. Please contact us to reschedule.")
    ELSE IF status = "completed"
    THEN Some("Hello " \o appointment.full_name
              \o ", thank you for visiting Dr. Vaibbhav Guray today! We hope you have a great day. Feel free to contact us for any follow-up concerns.")
    ELSE Some("")

\* the switch of lines 68-80: the message, or None where it returns
message(appointment, status) ==
    IF status = "confirmed"
    THEN Some("Hello " \o appointment.full_name
              \o ", your appointment with Dr. Vaibbhav Guray on "
              \o dateStr(appointment.preferred_date) \o " at our "
              \o Interpolate(appointment.location)
              \o " center has been CONFIRMED. We look forward to seeing you!")
    ELSE IF status = "cancelled"
    THEN Some("Hello " \o appointment.full_name
              \o ", we are sorry to inform you that your appointment with Dr. Vaibbhav Guray on "
              \o dateStr(appointment.preferred_date)
              \o " has been CANCELLED. Please contact us to reschedule.")
    ELSE IF status = "completed"
    THEN Some("Hello " \o appointment.full_name
              \o ", thank you for visiting Dr. Vaibbhav Guray today! We hope you have a great day. Feel free to contact us for any follow-up concerns.")
    ELSE None

\* sendStatusUpdateMessage(appointment, status) up to its first suspension:
\* the calls of sendWhatsAppMessage it made and its outcome so far
sendStatusUpdateMessage(appointment, status) ==
    LET m == message(appointment, status) IN
    IF m = None
    THEN [sends |-> << >>, outcome |-> Return(None)]
    ELSE [sends |-> <<[to |-> appointment.phone, message |-> m[1]]>>,
          outcome |-> sendWhatsAppMessage(appointment.phone, m[1])]

\* sendStatusUpdateMessage from the settling of sendWhatsAppMessage on:
\* `return await` hands the outcome on as it is (line 82)
sendStatusUpdateMessageResume(outcome) == outcome

\* ------------------------------------------------- the appointments table
\* .select('*').order('created_at', { ascending: false }): newest first
RECURSIVE SelectAll(_, _)
SelectAll(table, n) ==
    IF n = 0 THEN << >>
    ELSE (IF table[IdOrder[n]].present
          THEN <<Row(IdOrder[n], table[IdOrder[n]].status)>> ELSE << >>)
         \o SelectAll(table, n - 1)

\* what the table can answer to the query
FetchResponses(table) ==
    { [data |-> Some(SelectAll(table, Len(IdOrder))), error |-> None],
      [data |-> None, error |-> Some("StoreError")] }

\* .update({ status: newStatus }).eq('id', id) on the table
UpdateRow(table, id, newStatus) ==
    IF id \in DOMAIN table /\ table[id].present
    THEN [table EXCEPT ![id].status = newStatus]
    ELSE table

\* ------------------------------------------------ App.jsx: the registry
FetchIds == 1..MaxCalls

UpdateIds == 1..MaxCalls

IdleFetch == [pc |-> "idle", response |-> None]

IdleUpdate ==
    [pc |-> "idle", id |-> "", newStatus |-> "", appointment |-> None,
     response |-> None, notifies |-> << >>, sends |-> << >>,
     requests |-> << >>, reply |-> None, outcome |-> None, alerted |-> FALSE]

\* the first call slot not used yet
NextFree(calls) ==
    CHOOSE k \in DOMAIN calls :
        calls[k].pc = "idle" /\ \A j \in DOMAIN calls : j < k => calls[j].pc # "idle"

\* appointments.find(a => a.id === id): the first match, or undefined
find(snapshot, id) ==
    IF \E i \in 1..Len(snapshot) : snapshot[i].id = id
    THEN Some(snapshot[CHOOSE i \in 1..Len(snapshot) :
                    snapshot[i].id = id /\ \A j \in 1..(i - 1) : snapshot[j].id # id])
    ELSE None

\* mutant: a record that is not in the snapshot is inserted
PatchUpsert(prev, id, newStatus) ==
    IF \E i \in 1..Len(prev) : prev[i].id = id
    THEN [i \in 1..Len(prev) |->
             IF prev[i].id = id THEN [prev[i] EXCEPT !.status = newStatus] ELSE prev[i]]
    ELSE <<Row(id, newStatus)>> \o prev

\* prev.map(apt => apt.id === id ? { ...apt, status: newStatus } : apt)
Patch(prev, id, newStatus) ==
    [i \in 1..Len(prev) |->
        IF prev[i].id = id THEN [prev[i] EXCEPT !.status = newStatus] ELSE prev[i]]

\* mutant: the step notifies for every status of a known record, with the
\* empty message where the templates have none
NotificationAnyStatus(appointment, newStatus) ==
    IF appointment # None
    THEN LET m == message(appointment[1], newStatus) IN
         LET text == IF m = None THEN "" ELSE m[1] IN
         [notifies |-> <<[appointment |-> appointment, status |-> newStatus]>>,
          sends |-> <<[to |-> appointment[1].phone, message |-> text]>>,
          outcome |-> sendWhatsAppMessage(appointment[1].phone, text)]
    ELSE [notifies |-> << >>, sends |-> << >>, outcome |-> Return(None)]

\* mutant: the notifier is handed the record with the new status on it
NotificationPatchedRecord(appointment, newStatus) ==
    IF appointment # None /\ newStatus \in {"confirmed", "cancelled", "completed"}
    THEN LET patched == [appointment[1] EXCEPT !.status = newStatus] IN
         LET n == sendStatusUpdateMessage(patched, newStatus) IN
         [notifies |-> <<[appointment |-> Some(patched), status |-> newStatus]>>,
          sends |-> n.sends, outcome |-> n.outcome]
    ELSE [notifies |-> << >>, sends |-> << >>, outcome |-> Return(None)]

\* mutant: the guard does not test that the record was found; the notifier
\* destructures undefined and throws
NotificationUnguarded(appointment, newStatus) ==
    IF newStatus \in {"confirmed", "cancelled", "completed"}
    THEN IF appointment = None
         THEN [notifies |-> <<[appointment |-> None, status |-> newStatus]>>,
               sends |-> << >>, outcome |-> Throw("TypeError")]
         ELSE LET n == sendStatusUpdateMessage(appointment[1], newStatus) IN
              [notifies |-> <<[appointment |-> appointment, status |-> newStatus]>>,
               sends |-> n.sends, outcome |-> n.outcome]
    ELSE [notifies |-> << >>, sends |-> << >>, outcome |-> Return(None)]

\* lines 477-480: the notification step of updateStatus: the calls of
\* sendStatusUpdateMessage and of sendWhatsAppMessage made, and the outcome
Notification(appointment, newStatus) ==
    IF appointment # None /\ newStatus \in {"confirmed", "cancelled", "completed"}
    THEN LET n == sendStatusUpdateMessage(appointment[1], newStatus) IN
         [notifies |-> <<[appointment |-> appointment, status |-> newStatus]>>,
          sends |-> n.sends, outcome |-> n.outcome]
    ELSE [notifies |-> << >>, sends |-> << >>, outcome |-> Return(None)]

\* mutant: the error of the store write is not tested
updateStatusContinueIgnoresError(call, prev) ==
    LET n == Notification(call.appointment, call.newStatus) IN
    [appointments |-> Patch(prev, call.id, call.newStatus),
     notifies |-> n.notifies, sends |-> n.sends, outcome |-> n.outcome]

\* mutant: no notification when the record already had the new status
updateStatusContinueDedup(call, prev) ==
    IF call.response[1].error # None
    THEN [appointments |-> prev, notifies |-> << >>, sends |-> << >>,
          outcome |-> Throw(call.response[1].error[1])]
    ELSE LET n == IF call.appointment # None
                     /\ call.appointment[1].status = call.newStatus
                  THEN [notifies |-> << >>, sends |-> << >>, outcome |-> Return(None)]
                  ELSE Notification(call.appointment, call.newStatus) IN
         [appointments |-> Patch(prev, call.id, call.newStatus),
          notifies |-> n.notifies, sends |-> n.sends, outcome |-> n.outcome]

\* mutant: the notification starts with the snapshot not patched
updateStatusContinueNotifiesUnpatched(call, prev) ==
    IF call.response[1].error # None
    THEN [appointments |-> prev, notifies |-> << >>, sends |-> << >>,
          outcome |-> Throw(call.response[1].error[1])]
    ELSE LET n == Notification(call.appointment, call.newStatus) IN
         [appointments |-> prev,
          notifies |-> n.notifies, sends |-> n.sends, outcome |-> n.outcome]

\* updateStatus from the resolution of the store write to its next
\* suspension or its end (lines 468-480)
updateStatusContinue(call, prev) ==
    IF call.response[1].error # None
    THEN [appointments |-> prev, notifies |-> << >>, sends |-> << >>,
          outcome |-> Throw(call.response[1].error[1])]
    ELSE LET n == Notification(call.appointment, call.newStatus) IN
         [appointments |-> Patch(prev, call.id, call.newStatus),
          notifies |-> n.notifies, sends |-> n.sends, outcome |-> n.outcome]

\* catch (err) { ...; alert('Failed to update status. Please try again.') }
updateStatusCatch(outcome) == outcome.kind = "throw"

\* mutant: the flags are cleared at the end of the try block, not in finally
fetchAppointmentsNoFinally(response, prev, prevError) ==
    [appointments |-> IF response.error # None THEN prev
                      ELSE IF response.data = None THEN << >> ELSE response.data[1],
     error |-> IF response.error # None
               THEN Some("Failed to load appointments. Please try again.")
               ELSE None,
     loading |-> response.error # None,
     refreshing |-> response.error # None]

\* mutant: a successful fetch does not clear the error
fetchAppointmentsKeepsError(response, prev, prevError) ==
    [appointments |-> IF response.error # None THEN prev
                      ELSE IF response.data = None THEN << >> ELSE response.data[1],
     error |-> IF response.error # None
               THEN Some("Failed to load appointments. Please try again.")
               ELSE prevError,
     loading |-> FALSE,
     refreshing |-> FALSE]

\* mutant: a successful fetch keeps the local version of the records it knows
fetchAppointmentsKeepsLocal(response, prev, prevError) ==
    [appointments |->
        IF response.error # None THEN prev
        ELSE IF response.data = None THEN << >>
        ELSE [i \in 1..Len(response.data[1]) |->
                 IF find(prev, response.data[1][i].id) # None
                 THEN find(prev, response.data[1][i].id)[1]
                 ELSE response.data[1][i]],
     error |-> IF response.error # None
               THEN Some("Failed to load appointments. Please try again.")
               ELSE None,
     loading |-> FALSE,
     refreshing |-> FALSE]

\* mutant: loading is cleared only once rows are there
fetchAppointmentsLoadingUntilData(response, prev, prevError) ==
    [appointments |-> IF response.error # None THEN prev
                      ELSE IF response.data = None THEN << >> ELSE response.data[1],
     error |-> IF response.error # None
               THEN Some("Failed to load appointments. Please try again.")
               ELSE None,
     loading |-> IF response.error # None THEN prev = << >> ELSE FALSE,
     refreshing |-> FALSE]

\* fetchAppointments from the resolution of the query to its end
\* (lines 446-455): the four state values it leaves
fetchAppointmentsContinue(response, prev, prevError) ==
    [appointments |-> IF response.error # None THEN prev
                      ELSE IF response.data = None THEN << >> ELSE response.data[1],
     error |-> IF response.error # None
               THEN Some("Failed to load appointments. Please try again.")
               ELSE None,
     loading |-> FALSE,
     refreshing |-> FALSE]

\* mutant: the total counts the open records only
statsTotalOpen(snapshot) ==
    LET count(s) == Cardinality({i \in 1..Len(snapshot) : snapshot[i].status = s}) IN
    [total |-> count("pending") + count("confirmed"),
     pending |-> count("pending"),
     confirmed |-> count("confirmed"),
     completed |-> count("completed"),
     cancelled |-> count("cancelled")]

\* lines 515-521
stats(snapshot) ==
    LET count(s) == Cardinality({i \in 1..Len(snapshot) : snapshot[i].status = s}) IN
    [total |-> Len(snapshot),
     pending |-> count("pending"),
     confirmed |-> count("confirmed"),
     completed |-> count("completed"),
     cancelled |-> count("cancelled")]

\* lines 508-511; filter is 'all' or a status
filteredAppointments(snapshot, filter) ==
    SelectSeq(snapshot, LAMBDA apt : filter = "all" \/ apt.status = filter)

\* the day number of a calendar date, counted from 1970-01-01
DaysFromCivil(date) ==
    LET y == IF date.m <= 2 THEN date.y - 1 ELSE date.y
        era == y \div 400
        yoe == y - era * 400
        doy == (153 * (IF date.m > 2 THEN date.m - 3 ELSE date.m + 9) + 2) \div 5
               + date.d - 1
        doe == yoe * 365 + yoe \div 4 - yoe \div 100 + doy IN
    era * 146097 + doe - 719468

\* the date from which the model counts its milliseconds, for the instants
\* to fit the integers of the checker; comparisons do not depend on it
Origin == [y |-> 2026, m |-> 11, d |-> 1]

MsPerDay == 24 * 60 * 60 * 1000

\* new Date('yyyy-mm-dd').getTime(): midnight UTC of the date
getTime(date) == (DaysFromCivil(date) - DaysFromCivil(Origin)) * MsPerDay

\* mutant: the end of the window is excluded
upcomingAppointmentsExclusive(snapshot, today) ==
    LET nextWeek == today + 7 * MsPerDay IN
    SelectSeq(snapshot, LAMBDA apt :
        /\ apt.preferred_date # None
        /\ getTime(apt.preferred_date[1]) >= today
        /\ getTime(apt.preferred_date[1]) < nextWeek
        /\ apt.status \in {"pending", "confirmed"})

\* lines 523-531; today is the instant of the render
upcomingAppointments(snapshot, today) ==
    LET nextWeek == today + 7 * 24 * 60 * 60 * 1000 IN
    SelectSeq(snapshot, LAMBDA apt :
        IF apt.preferred_date = None THEN FALSE
        ELSE LET aptDate == getTime(apt.preferred_date[1]) IN
             /\ aptDate >= today
             /\ aptDate <= nextWeek
             /\ (apt.status = "pending" \/ apt.status = "confirmed"))

\* --------------------------------------------------------------- Init
NoProbe == [pc |-> "off"]

InitTable ==
    [id \in Ids |-> [present |-> TRUE,
                     status |-> IF id = "a1" THEN "pending" ELSE "confirmed"]]

InitApp ==
    /\ store = InitTable
    /\ phase = "constructed"
    /\ events = 0
    /\ appointments = << >>
    /\ loading = TRUE
    /\ error = None
    /\ refreshing = FALSE
    /\ fetches = [k \in FetchIds |-> IdleFetch]
    /\ updates = [u \in UpdateIds |-> IdleUpdate]
    /\ external = 0

Init ==
    /\ WHATSAPP_TOKEN \in {None, Some("EAAG")}
    /\ PHONE_NUMBER_ID = Some("1055")
    /\ InitApp
    /\ probe = NoProbe

\* ------------------------------------------------------------- actions
env == <<WHATSAPP_TOKEN, PHONE_NUMBER_ID>>

\* the operations started so far in this run
Started ==
    Cardinality({k \in FetchIds : fetches[k].pc # "idle"})
    + Cardinality({u \in UpdateIds : updates[u].pc # "idle"})
    + external

\* mutant: the cleanup does not remove the channel
SubscribedForever == phase # "constructed"

\* the channel exists from .subscribe() to supabase.removeChannel(channel)
Subscribed == phase = "mounted"

\* the start of fetchAppointments: setRefreshing(true) and the query is sent
StartFetch ==
    /\ Started < MaxCalls
    /\ refreshing' = TRUE
    /\ fetches' = [fetches EXCEPT ![NextFree(fetches)] = [pc |-> "sent", response |-> None]]

\* useEffect(..., []) on mount: fetchAppointments() and the subscription
Mount ==
    /\ phase = "constructed"
    /\ phase' = "mounted"
    /\ StartFetch
    /\ UNCHANGED <<env, store, events, appointments, loading, error, updates,
                   external, probe>>

\* the effect's cleanup: supabase.removeChannel(channel)
Unmount ==
    /\ phase = "mounted"
    /\ phase' = "unmounted"
    /\ events' = 0
    /\ UNCHANGED <<env, store, appointments, loading, error, refreshing, fetches,
                   updates, external, probe>>

\* the Refresh button: onClick={fetchAppointments} disabled={refreshing}
ClickRefresh ==
    /\ phase = "mounted"
    /\ ~loading
    /\ ~refreshing
    /\ StartFetch
    /\ UNCHANGED <<env, store, phase, events, appointments, loading, error,
                   updates, external, probe>>

\* the subscription callback: fetchAppointments() on any change
OnChange ==
    /\ Subscribed
    /\ events > 0
    /\ events' = events - 1
    /\ StartFetch
    /\ UNCHANGED <<env, store, phase, appointments, loading, error, updates,
                   external, probe>>

\* the table answers a query that is in flight
AnswerFetch(k) ==
    /\ fetches[k].pc = "sent"
    /\ \E r \in FetchResponses(store) :
          fetches' = [fetches EXCEPT ![k] = [pc |-> "answered", response |-> Some(r)]]
    /\ UNCHANGED <<env, store, phase, events, appointments, loading, error,
                   refreshing, updates, external, probe>>

\* fetchAppointments resumes with the answer and runs to its end
FinishFetch(k) ==
    /\ fetches[k].pc = "answered"
    /\ LET after == fetchAppointmentsContinue(fetches[k].response[1], appointments, error) IN
          /\ appointments' = after.appointments
          /\ error' = after.error
          /\ loading' = after.loading
          /\ refreshing' = after.refreshing
    /\ fetches' = [fetches EXCEPT ![k] =
                      [pc |-> "done",
                       response |-> Some([data |-> None,
                                          error |-> fetches[k].response[1].error])]]
    /\ UNCHANGED <<env, store, phase, events, updates, external, probe>>

\* a change made to the table raises an event on a subscribed channel
Raise == IF Subscribed THEN events + 1 ELSE events

\* the select of a row: onChange={(e) => updateStatus(apt.id, e.target.value)};
\* updateStatus runs to the await of the store write
CallUpdate(id, newStatus) ==
    /\ phase = "mounted"
    /\ ~loading
    /\ \E i \in 1..Len(appointments) :
          appointments[i].id = id /\ appointments[i].status # newStatus
    /\ Started < MaxCalls
    /\ updates' = [updates EXCEPT ![NextFree(updates)] =
                      [IdleUpdate EXCEPT !.pc = "writing", !.id = id,
                                         !.newStatus = newStatus,
                                         !.appointment = find(appointments, id)]]
    /\ UNCHANGED <<env, store, phase, events, appointments, loading, error,
                   refreshing, fetches, external, probe>>

\* the table handles the write: it commits it or answers with an error
AnswerUpdate(u) ==
    /\ updates[u].pc = "writing"
    /\ \/ /\ store' = UpdateRow(store, updates[u].id, updates[u].newStatus)
          /\ events' = IF store[updates[u].id].present THEN Raise ELSE events
          /\ updates' = [updates EXCEPT ![u].pc = "written",
                                        ![u].response = Some([error |-> None])]
       \/ /\ updates' = [updates EXCEPT ![u].pc = "written",
                                        ![u].response = Some([error |-> Some("StoreError")])]
          /\ UNCHANGED <<store, events>>
    /\ UNCHANGED <<env, phase, appointments, loading, error, refreshing, fetches,
                   external, probe>>

\* mutant: updateStatus reports through the registry's error: set by a
\* failed write, cleared by a successful one
ResumeUpdateSetsError(u) ==
    /\ updates[u].pc = "written"
    /\ LET after == updateStatusContinue(updates[u], appointments) IN
          /\ appointments' = after.appointments
          /\ error' = IF updates[u].response[1].error # None
                      THEN Some("Failed to update status. Please try again.")
                      ELSE None
          /\ updates' = [updates EXCEPT
                ![u].pc = IF after.outcome.kind = "await" THEN "sending" ELSE "done",
                ![u].notifies = after.notifies,
                ![u].sends = after.sends,
                ![u].requests = IF after.outcome.kind = "await"
                                THEN <<after.outcome.request>> ELSE << >>,
                ![u].outcome = Some(after.outcome),
                ![u].alerted = updateStatusCatch(after.outcome)]
    /\ UNCHANGED <<env, store, phase, events, loading, refreshing, fetches,
                   external, probe>>

\* updateStatus resumes with the answer of the store
ResumeUpdate(u) ==
    /\ updates[u].pc = "written"
    /\ LET after == updateStatusContinue(updates[u], appointments) IN
          /\ appointments' = after.appointments
          /\ updates' = [updates EXCEPT
                ![u].pc = IF after.outcome.kind = "await" THEN "sending" ELSE "done",
                ![u].notifies = after.notifies,
                ![u].sends = after.sends,
                ![u].requests = IF after.outcome.kind = "await"
                                THEN <<after.outcome.request>> ELSE << >>,
                ![u].outcome = Some(after.outcome),
                ![u].alerted = updateStatusCatch(after.outcome)]
    /\ UNCHANGED <<env, store, phase, events, loading, error, refreshing, fetches,
                   external, probe>>

\* the provider or the network settles the request; sendWhatsAppMessage,
\* sendStatusUpdateMessage (return await) and updateStatus run to their end
SettleUpdate(u) ==
    /\ updates[u].pc = "sending"
    /\ \E r \in Responses :
          LET outcome == sendStatusUpdateMessageResume(sendWhatsAppMessageResume(r)) IN
          updates' = [updates EXCEPT
                ![u].pc = IF outcome.kind = "await" THEN "sending" ELSE "done",
                ![u].requests = IF outcome.kind = "await"
                                THEN Append(@, outcome.request) ELSE @,
                ![u].reply = Some(r),
                ![u].outcome = Some(outcome),
                ![u].alerted = updateStatusCatch(outcome)]
    /\ UNCHANGED <<env, store, phase, events, appointments, loading, error,
                   refreshing, fetches, external, probe>>

\* another writer changes the status of the oldest row, or deletes the
\* newest row or inserts it again
ExternalChange ==
    /\ Started < MaxCalls
    /\ external' = external + 1
    /\ \/ /\ store[IdOrder[1]].present
          /\ \E s \in Statuses \ {store[IdOrder[1]].status} :
                store' = [store EXCEPT ![IdOrder[1]].status = s]
       \/ store' = [store EXCEPT
                       ![IdOrder[Len(IdOrder)]].present = ~store[IdOrder[Len(IdOrder)]].present,
                       ![IdOrder[Len(IdOrder)]].status = "pending"]
    /\ events' = Raise
    /\ UNCHANGED <<env, phase, appointments, loading, error, refreshing, fetches,
                   updates, probe>>

Next ==
    \/ Mount
    \/ Unmount
    \/ ClickRefresh
    \/ OnChange
    \/ \E k \in FetchIds : AnswerFetch(k)
    \/ \E k \in FetchIds : FinishFetch(k)
    \/ \E id \in Ids, s \in Statuses : CallUpdate(id, s)
    \/ \E u \in UpdateIds : AnswerUpdate(u)
    \/ \E u \in UpdateIds : ResumeUpdate(u)
    \/ \E u \in UpdateIds : SettleUpdate(u)
    \/ ExternalChange

Spec == Init /\ [][Next]_vars

\* ----------------------------- direct calls of updateStatus on a loaded App
\* the tables the first load can have read
LoadedTables ==
    { InitTable,
      [InitTable EXCEPT ![IdOrder[Len(IdOrder)]].present = FALSE],
      [InitTable EXCEPT ![IdOrder[1]].status = "confirmed"] }

\* at most one row differs between the two tables
OneChange(t1, t2) == Cardinality({id \in Ids : t1[id] # t2[id]}) <= 1

\* the App is mounted and its first load is over: the snapshot is what that
\* load read; the table is as it was read, or one change later with the
\* event of that change not delivered yet
InitLoaded ==
    /\ WHATSAPP_TOKEN \in {None, Some("EAAG")}
    /\ PHONE_NUMBER_ID = Some("1055")
    /\ \E read \in LoadedTables :
          /\ appointments = SelectAll(read, Len(IdOrder))
          /\ store \in {t \in LoadedTables : OneChange(read, t)}
          /\ events = IF store = read THEN 0 ELSE 1
    /\ phase = "mounted"
    /\ loading = FALSE
    /\ error = None
    /\ refreshing = FALSE
    /\ fetches = [k \in FetchIds |-> IdleFetch]
    /\ updates = [u \in UpdateIds |-> IdleUpdate]
    /\ external = 0
    /\ probe = NoProbe

\* updateStatus(id, newStatus) called with any id and any status, and the same
\* call made again once the one before has ended; it runs to the await of
\* the store write (lines 459-466)
DirectCall(id, newStatus) ==
    /\ phase = "mounted"
    /\ Started < MaxCalls
    /\ \A u \in UpdateIds :
          \/ updates[u].pc = "idle"
          \/ /\ updates[u].pc = "done"
             /\ updates[u].id = id
             /\ updates[u].newStatus = newStatus
    /\ updates' = [updates EXCEPT ![NextFree(updates)] =
                      [IdleUpdate EXCEPT !.pc = "writing", !.id = id,
                                         !.newStatus = newStatus,
                                         !.appointment = find(appointments, id)]]
    /\ UNCHANGED <<env, store, phase, events, appointments, loading, error,
                   refreshing, fetches, external, probe>>

NextLoaded ==
    \/ ClickRefresh
    \/ OnChange
    \/ \E k \in FetchIds : AnswerFetch(k)
    \/ \E k \in FetchIds : FinishFetch(k)
    \/ \E id \in Ids, s \in Statuses : DirectCall(id, s)
    \/ \E u \in UpdateIds : AnswerUpdate(u)
    \/ \E u \in UpdateIds : ResumeUpdate(u)
    \/ \E u \in UpdateIds : SettleUpdate(u)

SpecLoaded == InitLoaded /\ [][NextLoaded]_vars

\* ------------------------------------- direct calls of the whatsapp.js exports
\* the environment values a build can carry: unset, empty, set
EnvValues(v) == {None, Some(""), Some(v)}

DigitCycle == <<"9", "8", "7", "6", "5", "4", "3", "2", "1", "0">>

Digits(d) == [i \in 1..d |-> DigitCycle[((i - 1) % 10) + 1]]

Insert(s, pos, c) == SubSeq(s, 1, pos) \o <<c>> \o SubSeq(s, pos + 1, Len(s))

\* destinations: up to MaxDigits digits, bare or with one separator anywhere;
\* every text of up to 4 characters over a small alphabet; the documented forms
Destinations ==
    {None}
    \cup {Some(Digits(d)) : d \in 0..MaxDigits}
    \cup {Some(Insert(Digits(p[1]), p[2], c)) :
            p \in {q \in (0..MaxDigits) \X (0..MaxDigits) : q[2] <= q[1]},
            c \in {"+", " ", "-"}}
    \cup {Some(t) : t \in UNION {[1..n -> {"9", "0", "+", "a"}] : n \in 0..4}}
    \cup { Some(<<"+","9","1"," ","9","8","7","6","5"," ","4","3","2","1","0">>),
           Some(<<"0","0","9","1","9","8","7","6","5","4","3","2","1","0">>),
           Some(<<"(","9","8","7",")"," ","6","5","4","-","3","2","1","0">>) }

ProbeInputs ==
    {[pc |-> "ready", fn |-> "sendWhatsAppMessage", to |-> to, message |-> m,
      appointment |-> None, status |-> "", sends |-> << >>, requests |-> << >>,
      reply |-> None, outcome |-> None] : to \in Destinations, m \in {"", "Hello"}}
    \cup
    {[pc |-> "ready", fn |-> "sendStatusUpdateMessage", to |-> None, message |-> "",
      appointment |-> Some(Row(id, s)), status |-> t, sends |-> << >>,
      requests |-> << >>, reply |-> None, outcome |-> None] :
        id \in Ids, s \in Statuses, t \in Statuses \cup {"rescheduled", ""}}

InitSend ==
    /\ WHATSAPP_TOKEN \in EnvValues("EAAG")
    /\ PHONE_NUMBER_ID \in EnvValues("1055")
    /\ InitApp
    /\ probe \in ProbeInputs

\* the export is called and runs to its first suspension or its end
ProbeCall ==
    /\ probe.pc = "ready"
    /\ LET r == IF probe.fn = "sendWhatsAppMessage"
                THEN [sends |-> << >>,
                      outcome |-> sendWhatsAppMessage(probe.to, probe.message)]
                ELSE sendStatusUpdateMessage(probe.appointment[1], probe.status) IN
          probe' = [probe EXCEPT
                       !.pc = IF r.outcome.kind = "await" THEN "await" ELSE "done",
                       !.sends = r.sends,
                       !.requests = IF r.outcome.kind = "await"
                                    THEN <<r.outcome.request>> ELSE << >>,
                       !.outcome = Some(r.outcome)]
    /\ UNCHANGED <<env, store, phase, events, appointments, loading, error,
                   refreshing, fetches, updates, external>>

\* the provider or the network settles the request of the call
ProbeSettle ==
    /\ probe.pc = "await"
    /\ \E r \in Responses :
          LET sent == sendWhatsAppMessageResume(r) IN
          LET outcome == IF probe.fn = "sendWhatsAppMessage" THEN sent
                         ELSE sendStatusUpdateMessageResume(sent) IN
          probe' = [probe EXCEPT
                       !.pc = IF outcome.kind = "await" THEN "await" ELSE "done",
                       !.requests = IF outcome.kind = "await"
                                    THEN Append(@, outcome.request) ELSE @,
                       !.reply = Some(r),
                       !.outcome = Some(outcome)]
    /\ UNCHANGED <<env, store, phase, events, appointments, loading, error,
                   refreshing, fetches, updates, external>>

NextSend ==
    \/ ProbeCall
    \/ ProbeSettle

SpecSend == InitSend /\ [][NextSend]_vars

\* --------------------------------------- renders of the upcoming view
\* the dates a record can carry: none, and days around a week's two ends
ViewDates ==
    {None} \cup {Some([y |-> 2026, m |-> 11, d |-> d]) : d \in {3, 4, 10, 11}}

\* a record of the table with the given status and date
Dated(id, status, date) == [Row(id, status) EXCEPT !.preferred_date = date]

\* snapshots: the records of the table or some of them, newest first, each
\* with any status and any of the dates
ViewSnapshots ==
    {<< >>}
    \cup {<<Dated(id, s, d)>> : id \in Ids, s \in Statuses, d \in ViewDates}
    \cup {<<Dated(IdOrder[2], s2, d2), Dated(IdOrder[1], s1, d1)>> :
             s1 \in Statuses, s2 \in Statuses, d1 \in ViewDates, d2 \in ViewDates}

\* new Date() at the render: midnight UTC of a day, one millisecond later,
\* noon, and the last millisecond of the day
Clock ==
    {getTime([y |-> 2026, m |-> 11, d |-> d]) + t :
        d \in {3, 4}, t \in {0, 1, MsPerDay \div 2, MsPerDay - 1}}

InitView ==
    /\ WHATSAPP_TOKEN = None
    /\ PHONE_NUMBER_ID = None
    /\ InitApp
    /\ \E snapshot \in ViewSnapshots, today \in Clock :
          probe = [pc |-> "ready", fn |-> "upcomingAppointments",
                   snapshot |-> snapshot, today |-> today, view |-> << >>,
                   patch |-> None, before |-> None]

\* App renders: the view is computed from the snapshot (lines 523-531)
Render ==
    /\ probe.pc = "ready"
    /\ probe' = [probe EXCEPT
                    !.pc = "rendered",
                    !.view = upcomingAppointments(probe.snapshot, probe.today)]
    /\ UNCHANGED <<env, store, phase, events, appointments, loading, error,
                   refreshing, fetches, updates, external>>

\* the patch of a successful updateStatus (lines 470-474) and the render
\* that follows it, at the same instant; the snapshot and the view of
\* before are kept aside
PatchAndRender(id, newStatus) ==
    /\ probe.pc = "rendered"
    /\ LET patched == Patch(probe.snapshot, id, newStatus) IN
          probe' = [probe EXCEPT
                       !.pc = "patched",
                       !.patch = Some([id |-> id, newStatus |-> newStatus]),
                       !.before = Some([snapshot |-> probe.snapshot,
                                        view |-> probe.view]),
                       !.snapshot = patched,
                       !.view = upcomingAppointments(patched, probe.today)]
    /\ UNCHANGED <<env, store, phase, events, appointments, loading, error,
                   refreshing, fetches, updates, external>>

NextView ==
    \/ Render
    \/ \E id \in Ids, s \in Statuses : PatchAndRender(id, s)

SpecView == InitView /\ [][NextView]_vars

\* ============================================================== claims
WriteSucceeded(call) == call.response # None /\ call.response[1].error = None

WriteFailed(call) == call.response # None /\ call.response[1].error # None

NotificationWorthy == {"confirmed", "completed", "cancelled"}

\* the result { success: false, error: e } of the channel, returned
Failure(e) == Return(Some([success |-> FALSE, error |-> e]))

\* C1: once the store write of updateStatus has succeeded, every step of the
\* call that carries a notification outcome leaves the table as it is, never
\* shows the 'Failed to update status' alert, and leaves the snapshot holding
\* newStatus for id: the step that patches holds it for every record with
\* that id, the step that settles the delivery does not touch the snapshot.
C1_NotificationOutcomeIsolated ==
    [][\A u \in UpdateIds :
          (WriteSucceeded(updates[u]) /\ updates'[u].pc # updates[u].pc) =>
             /\ store' = store
             /\ ~updates'[u].alerted
             /\ updates[u].pc = "written" =>
                   /\ Len(appointments') = Len(appointments)
                   /\ \A i \in 1..Len(appointments') :
                         appointments'[i].id = updates[u].id =>
                            appointments'[i].status = updates[u].newStatus
             /\ updates[u].pc = "sending" => appointments' = appointments]_vars

\* C1 witness: a call whose write succeeded has ended on a network exception
\* of the delivery, without alert, the snapshot holding the new status
C1_Witness ==
    \E u \in UpdateIds :
        /\ updates[u].pc = "done"
        /\ WriteSucceeded(updates[u])
        /\ updates[u].reply = Some([t |-> "reject", error |-> "NetworkError"])
        /\ ~updates[u].alerted
        /\ \E i \in 1..Len(appointments) :
              appointments[i].id = updates[u].id
              /\ appointments[i].status = updates[u].newStatus

\* the fixed sentence of each notification-worthy status, with the record's
\* own columns
Template(status, id) ==
    LET name == Profile(id).full_name
        date == IF Profile(id).preferred_date = None THEN "the requested date"
                ELSE toLocaleDateString(Profile(id).preferred_date[1])
        place == IF Profile(id).location = None THEN "null"
                 ELSE Profile(id).location[1] IN
    CASE status = "confirmed" ->
            "Hello " \o name \o ", your appointment with Dr. Vaibbhav Guray on "
            \o date \o " at our " \o place
            \o " center has been CONFIRMED. We look forward to seeing you!"
      [] status = "cancelled" ->
            "Hello " \o name
            \o ", we are sorry to inform you that your appointment with Dr. Vaibbhav Guray on "
            \o date \o " has been CANCELLED. Please contact us to reschedule."
      [] status = "completed" ->
            "Hello " \o name
            \o ", thank you for visiting Dr. Vaibbhav Guray today! We hope you have a great day. Feel free to contact us for any follow-up concerns."

\* C2: a call of updateStatus on a record of the snapshot with a
\* notification-worthy newStatus whose write succeeded has made, once it has
\* resumed, exactly one call of the channel send, to the record's own phone,
\* with the fixed sentence of newStatus filled with the record's own name,
\* date (the placeholder when absent) and location; at most one request
\* follows from it.
C2_ExactlyOneNotification ==
    \A u \in UpdateIds :
        (/\ updates[u].pc \in {"sending", "done"}
         /\ WriteSucceeded(updates[u])
         /\ updates[u].appointment # None
         /\ updates[u].newStatus \in NotificationWorthy) =>
            /\ Len(updates[u].sends) = 1
            /\ updates[u].sends[1].to = Profile(updates[u].id).phone
            /\ updates[u].sends[1].message = Template(updates[u].newStatus, updates[u].id)
            /\ Len(updates[u].requests) <= 1
            /\ \A i \in 1..Len(updates[u].requests) :
                  updates[u].requests[i].body = Template(updates[u].newStatus, updates[u].id)

\* C2 witness: a cancellation of the record without a date has been sent with
\* the placeholder, and a confirmation of the dated record has produced a
\* request
C2_Witness ==
    \E u, v \in UpdateIds :
        /\ updates[u].pc = "done" /\ WriteSucceeded(updates[u])
        /\ updates[u].newStatus = "cancelled"
        /\ updates[u].appointment # None
        /\ updates[u].appointment[1].preferred_date = None
        /\ Len(updates[u].sends) = 1
        /\ updates[v].newStatus = "confirmed"
        /\ updates[v].appointment # None
        /\ updates[v].appointment[1].preferred_date # None
        /\ Len(updates[v].requests) = 1

\* C3: a call updateStatus(id, 'pending') never carries a call of the channel
\* send nor a request, at any point of the call, whether the write succeeds
\* or fails and whatever the status the record had.
C3_PendingNeverNotifies ==
    \A u \in UpdateIds :
        updates[u].newStatus = "pending" =>
            updates[u].sends = << >> /\ updates[u].requests = << >>

\* C3 witness: a confirmed record was moved back to pending, the write
\* succeeded and the call has ended, with credentials configured
C3_Witness ==
    \E u \in UpdateIds :
        /\ updates[u].pc = "done"
        /\ updates[u].newStatus = "pending"
        /\ WriteSucceeded(updates[u])
        /\ updates[u].appointment # None
        /\ updates[u].appointment[1].status = "confirmed"
        /\ ~CredentialsMissing

\* C4: the step in which updateStatus resumes with a failed store write leaves
\* the snapshot exactly as it was, shows the alert, and ends the call with no
\* call of the channel send and no request, for every newStatus.
C4_FailedWriteLeavesSnapshot ==
    [][\A u \in UpdateIds :
          (WriteFailed(updates[u]) /\ updates[u].pc = "written"
           /\ updates'[u].pc # "written") =>
             /\ appointments' = appointments
             /\ updates'[u].alerted
             /\ updates'[u].pc = "done"
             /\ updates'[u].sends = << >>
             /\ updates'[u].requests = << >>]_vars

\* C4 witness: a notification-worthy update of a listed record has ended on a
\* failed write, alerted, the snapshot still showing the old status
C4_Witness ==
    \E u \in UpdateIds :
        /\ updates[u].pc = "done"
        /\ WriteFailed(updates[u])
        /\ updates[u].newStatus \in NotificationWorthy
        /\ updates[u].alerted
        /\ \E i \in 1..Len(appointments) :
              appointments[i].id = updates[u].id
              /\ appointments[i].status # updates[u].newStatus

FetchFailed(call) == call.response # None /\ call.response[1].error # None

\* C5: the step that completes a fetchAppointments call leaves loading and
\* refreshing false; when the fetch failed it leaves the snapshot and the
\* per-status counts as they were and sets the error to the user-facing text.
C5_FailedRefreshKeepsSnapshot ==
    [][\A k \in FetchIds :
          (fetches[k].pc = "answered" /\ fetches'[k].pc = "done") =>
             /\ loading' = FALSE
             /\ refreshing' = FALSE
             /\ FetchFailed(fetches[k]) =>
                   /\ appointments' = appointments
                   /\ stats(appointments') = stats(appointments)
                   /\ error' = Some("Failed to load appointments. Please try again.")]_vars

\* C5 witness: a refresh has failed over a loaded snapshot; the flags are down
C5_Witness ==
    /\ \E k \in FetchIds : fetches[k].pc = "done" /\ FetchFailed(fetches[k])
    /\ \A k \in FetchIds : fetches[k].pc \in {"idle", "done"}
    /\ Len(appointments) = 2
    /\ error = Some("Failed to load appointments. Please try again.")
    /\ ~loading /\ ~refreshing

\* C6: the step that completes a fetchAppointments call whose fetch succeeded
\* makes the snapshot equal to the fetched sequence and clears the error,
\* whatever the snapshot and the error were before.
C6_SuccessfulRefreshReplaces ==
    [][\A k \in FetchIds :
          (fetches[k].pc = "answered" /\ ~FetchFailed(fetches[k])
           /\ fetches'[k].pc = "done") =>
             /\ appointments' = fetches[k].response[1].data[1]
             /\ error' = None]_vars

\* C6 witness: after a failed refresh a later one succeeded: the error is
\* cleared and the snapshot is the table's rows
C6_Witness ==
    /\ \E j, k \in FetchIds :
          /\ fetches[j].pc = "done" /\ FetchFailed(fetches[j])
          /\ fetches[k].pc = "done" /\ ~FetchFailed(fetches[k])
    /\ error = None
    /\ appointments = SelectAll(store, Len(IdOrder))
    /\ Len(appointments) = 2

\* C7: a direct call of send with the token or the phone-number-id unset or
\* empty has ended at once, returning success = false, with no request, for
\* every destination and body.
C7_MissingCredentials ==
    (/\ probe.pc # "off"
     /\ probe.fn = "sendWhatsAppMessage"
     /\ probe.pc # "ready"
     /\ (~Truthy(WHATSAPP_TOKEN) \/ ~Truthy(PHONE_NUMBER_ID))) =>
        /\ probe.pc = "done"
        /\ probe.outcome = Some(Failure("Credentials missing"))
        /\ probe.requests = << >>
        /\ probe.reply = None

\* C7 witness: send has returned with the token set and the sender id unset
C7_Witness ==
    /\ probe.pc = "done"
    /\ probe.fn = "sendWhatsAppMessage"
    /\ Truthy(WHATSAPP_TOKEN)
    /\ PHONE_NUMBER_ID = None
    /\ probe.to # None
    /\ probe.outcome = Some(Failure("Credentials missing"))

\* C8: no step of an updateStatus call whose write succeeded ends with an
\* exception out of send: a rejected request or an unreadable answer gives
\* the result success = false with the exception as error, and so does an
\* absent phone number, in the very step that patches the snapshot, the
\* table keeping the write.
C8_SendNeverThrows ==
    [][\A u \in UpdateIds :
          (WriteSucceeded(updates[u]) /\ updates'[u].pc # updates[u].pc) =>
             /\ updates'[u].outcome[1].kind # "throw"
             /\ (updates'[u].reply # None /\ updates'[u].reply[1].t = "reject") =>
                   updates'[u].outcome = Some(Failure(updates'[u].reply[1].error))
             /\ (updates'[u].reply # None /\ updates'[u].reply[1].t = "response"
                 /\ updates'[u].reply[1].json = None) =>
                   updates'[u].outcome = Some(Failure("SyntaxError"))
             /\ (updates[u].pc = "written" /\ updates'[u].sends # << >>
                 /\ updates'[u].sends[1].to = None) =>
                   /\ updates'[u].pc = "done"
                   /\ updates'[u].outcome \in
                         {Some(Failure("TypeError")), Some(Failure("Credentials missing"))}
                   /\ ~CredentialsMissing => updates'[u].outcome = Some(Failure("TypeError"))
                   /\ store' = store
                   /\ \A i \in 1..Len(appointments') :
                         appointments'[i].id = updates[u].id =>
                            appointments'[i].status = updates[u].newStatus]_vars

\* C8 witness: with credentials configured, the update of the record without
\* phone number has ended with the TypeError as result, the table and the
\* snapshot both holding the new status
C8_Witness ==
    \E u \in UpdateIds :
        /\ updates[u].pc = "done"
        /\ WriteSucceeded(updates[u])
        /\ ~CredentialsMissing
        /\ updates[u].sends # << >>
        /\ updates[u].sends[1].to = None
        /\ updates[u].outcome = Some(Failure("TypeError"))
        /\ store[updates[u].id].status = updates[u].newStatus
        /\ \E i \in 1..Len(appointments) :
              appointments[i].id = updates[u].id
              /\ appointments[i].status = updates[u].newStatus

\* C9 as stated: notify with a status outside the three returns at once the
\* result success = false, error = "not notification-worthy", without a call
\* of send.
C9_AsStated ==
    (/\ probe.pc = "done"
     /\ probe.fn = "sendStatusUpdateMessage"
     /\ probe.status \notin NotificationWorthy) =>
        /\ probe.outcome = Some(Failure("not notification-worthy"))
        /\ probe.sends = << >>

\* C9 amended: notify with a status outside the three returns at once with no
\* value (undefined), without a call of send and without a request.
C9_ReturnsNothing ==
    (/\ probe.pc \in {"await", "done"}
     /\ probe.fn = "sendStatusUpdateMessage"
     /\ probe.status \notin NotificationWorthy) =>
        /\ probe.pc = "done"
        /\ probe.outcome = Some(Return(None))
        /\ probe.sends = << >>
        /\ probe.requests = << >>

\* C9 witness: notify was called for 'pending' with credentials configured
\* and has returned
C9_Witness ==
    /\ probe.pc = "done"
    /\ probe.fn = "sendStatusUpdateMessage"
    /\ probe.status = "pending"
    /\ ~CredentialsMissing
    /\ probe.outcome = Some(Return(None))

\* C10: with credentials configured, send of a text destination makes a
\* request whose destination is the digits of the text in their order,
\* preceded by "91" if they are exactly 10, unchanged otherwise.
C10_PhoneNormalization ==
    (/\ probe.pc \in {"await", "done"}
     /\ probe.fn = "sendWhatsAppMessage"
     /\ ~CredentialsMissing
     /\ probe.to # None) =>
        LET digits == SelectSeq(probe.to[1], IsDigit) IN
        /\ Len(probe.requests) = 1
        /\ probe.requests[1].to =
              IF Len(digits) = 10 THEN <<"9", "1">> \o digits ELSE digits
        /\ probe.to[1] \in {<<"9","8","7","6","5","4","3","2","1","0">>,
                            <<"+","9","1"," ","9","8","7","6","5"," ","4","3","2","1","0">>} =>
              probe.requests[1].to = <<"9","1","9","8","7","6","5","4","3","2","1","0">>
        /\ probe.to[1] = <<"0","0","9","1","9","8","7","6","5","4","3","2","1","0">> =>
              probe.requests[1].to = <<"0","0","9","1","9","8","7","6","5","4","3","2","1","0">>

\* C10 witness: "+91 98765 43210" was sent as "919876543210", the 12 digits
\* of the text with no second prefix
C10_Witness ==
    /\ probe.pc = "done"
    /\ probe.fn = "sendWhatsAppMessage"
    /\ probe.to = Some(<<"+","9","1"," ","9","8","7","6","5"," ","4","3","2","1","0">>)
    /\ Len(probe.requests) = 1
    /\ probe.requests[1].to = <<"9","1","9","8","7","6","5","4","3","2","1","0">>

\* C11: when updateStatus invokes the notifier, the record it passes is the
\* one found in the snapshot before the write (the name, phone, date and
\* location of that record, and its status of before the update), together
\* with the new status; the record passed never carries the patched status,
\* and the message is addressed and built from that record.
C11_NotifierGetsPreUpdateRecord ==
    \A u \in UpdateIds :
        LET call == updates[u] IN
        call.notifies # << >> =>
            /\ Len(call.notifies) = 1
            /\ call.notifies[1].status = call.newStatus
            /\ call.notifies[1].appointment = call.appointment
            /\ call.appointment # None
            /\ \E s \in Statuses \ {call.newStatus} :
                   call.appointment[1] = Row(call.id, s)
            /\ Len(call.sends) <= 1
            /\ \A i \in 1..Len(call.sends) :
                   /\ call.sends[i].to = Profile(call.id).phone
                   /\ call.sends[i].message = Template(call.newStatus, call.id)

\* a call has notified, the snapshot holds the patched record, and the record
\* handed to the notifier still has the status of before
C11_Witness ==
    \E u \in UpdateIds :
        /\ updates[u].pc = "done"
        /\ updates[u].notifies # << >>
        /\ updates[u].sends # << >>
        /\ find(appointments, updates[u].id) # None
        /\ find(appointments, updates[u].id)[1].status = updates[u].newStatus
        /\ updates[u].notifies[1].appointment[1].status # updates[u].newStatus

\* C12: a call of updateStatus with an id that the snapshot does not hold
\* still sends the write to the store (a row of that id in the table takes
\* the new status), and never notifies: no call of the notifier, no call of
\* the channel send and no request, also when the write succeeded and
\* newStatus is notification-worthy; after a successful write the call ends
\* without the alert.
C12_UnknownIdWritesButNeverNotifies ==
    \A u \in UpdateIds :
        LET call == updates[u] IN
        (call.pc # "idle" /\ call.appointment = None) =>
            /\ call.pc \in {"writing", "written", "done"}
            /\ call.notifies = << >>
            /\ call.sends = << >>
            /\ call.requests = << >>
            /\ WriteSucceeded(call) =>
                   /\ store[call.id].present => store[call.id].status = call.newStatus
                   /\ call.pc = "done" =>
                          /\ ~call.alerted
                          /\ call.outcome = Some(Return(None))
            /\ (call.pc = "done" /\ WriteFailed(call)) => call.alerted

\* the snapshot lacks a row that the table holds; the call for that row with
\* a notification-worthy status has written it and ended
C12_Witness ==
    \E u \in UpdateIds :
        /\ updates[u].pc = "done"
        /\ updates[u].appointment = None
        /\ updates[u].newStatus \in NotificationWorthy
        /\ WriteSucceeded(updates[u])
        /\ store[updates[u].id].present
        /\ store[updates[u].id].status = updates[u].newStatus
        /\ WHATSAPP_TOKEN # None

\* a call that has resumed from a successful write of a notification-worthy
\* status for a record it found in the snapshot
Notifying(call) ==
    /\ call.pc \in {"sending", "done"}
    /\ WriteSucceeded(call)
    /\ call.newStatus \in NotificationWorthy
    /\ call.appointment # None

\* C13: every call of updateStatus that resumed from a successful write of a
\* notification-worthy status makes one notification send, whatever status
\* the record had before, the new status itself included; so two calls
\* updateStatus(id, 'confirmed') one after the other on the same record, both
\* writes succeeding, make two sends with the same destination and message.
C13_NoDeduplication ==
    /\ \A u \in UpdateIds :
          Notifying(updates[u]) =>
              /\ Len(updates[u].notifies) = 1
              /\ Len(updates[u].sends) = 1
    /\ \A u, v \in UpdateIds :
          (/\ u < v
           /\ Notifying(updates[u])
           /\ Notifying(updates[v])
           /\ updates[u].id = updates[v].id
           /\ updates[u].newStatus = updates[v].newStatus) =>
              /\ Len(updates[u].sends) + Len(updates[v].sends) = 2
              /\ updates[u].sends = updates[v].sends

\* the same confirmation made twice, the second on a record that the snapshot
\* already showed as confirmed, and both have sent
C13_Witness ==
    \E u, v \in UpdateIds :
        /\ u < v
        /\ updates[u].pc = "done" /\ updates[v].pc = "done"
        /\ WriteSucceeded(updates[u]) /\ WriteSucceeded(updates[v])
        /\ updates[u].id = updates[v].id
        /\ updates[u].newStatus = "confirmed" /\ updates[v].newStatus = "confirmed"
        /\ updates[u].appointment # None /\ updates[v].appointment # None
        /\ updates[u].appointment[1].status = "pending"
        /\ updates[v].appointment[1].status = "confirmed"
        /\ updates[u].sends # << >> /\ updates[v].sends # << >>
        /\ updates[u].requests # << >> /\ updates[v].requests # << >>

\* a direct call, made with credentials configured, whose request the
\* provider has answered
Answered ==
    /\ probe.pc = "done"
    /\ ~CredentialsMissing
    /\ probe.reply # None
    /\ probe.reply[1].t = "response"

\* C14 as stated: with credentials configured, a success answer of the
\* provider gives success = true and a non-success answer gives
\* success = false with the provider's payload as error, from send and, the
\* result being handed on unchanged, from notify.
C14_AsStated ==
    Answered =>
        /\ probe.outcome[1].kind = "return"
        /\ probe.outcome[1].value # None
        /\ probe.outcome[1].value[1].success = probe.reply[1].ok
        /\ ~probe.reply[1].ok =>
               probe.reply[1].json = Some(probe.outcome[1].value[1].error)

\* C14: with credentials configured, when the provider's answer has a body
\* that parses as JSON, send returns success = false with that body as error
\* for a non-success answer and success = true with that body as data for a
\* success answer; an answer of either kind whose body does not parse gives
\* success = false with the parse exception as error; notify returns what
\* send returned, unchanged, also when send returned before any request.
C14_ProviderAnswer ==
    /\ Answered =>
          /\ (probe.reply[1].json # None /\ probe.reply[1].ok) =>
                 probe.outcome =
                    Some(Return(Some([success |-> TRUE, data |-> probe.reply[1].json[1]])))
          /\ (probe.reply[1].json # None /\ ~probe.reply[1].ok) =>
                 probe.outcome = Some(Failure(probe.reply[1].json[1]))
          /\ probe.reply[1].json = None =>
                 probe.outcome = Some(Failure("SyntaxError"))
    /\ (/\ probe.pc = "done"
        /\ probe.fn = "sendStatusUpdateMessage"
        /\ probe.sends # << >>
        /\ probe.reply = None) =>
          probe.outcome = Some(sendWhatsAppMessage(probe.sends[1].to, probe.sends[1].message))

\* notify has returned the failure that send built from the provider's error
C14_Witness ==
    /\ Answered
    /\ probe.fn = "sendStatusUpdateMessage"
    /\ probe.reply[1] = [t |-> "response", ok |-> FALSE, json |-> Some("provider error")]
    /\ probe.outcome = Some(Failure("provider error"))

\* the fetchAppointments calls started so far
FetchesStarted == Cardinality({k \in FetchIds : fetches[k].pc # "idle"})

\* C15: while the subscription is active, a change of the table raises a
\* change event and the delivery of an event starts exactly one
\* fetchAppointments call; from the teardown on, no event is pending or
\* raised and no step starts a fetchAppointments call, whatever changes the
\* table goes through.
C15_SubscriptionScope ==
    [][/\ (Subscribed /\ phase' = phase /\ store' # store) => events' = events + 1
       /\ (Subscribed /\ phase' = phase /\ events' < events) =>
             /\ events' = events - 1
             /\ FetchesStarted' = FetchesStarted + 1
             /\ refreshing'
       /\ phase' = "unmounted" =>
             /\ events' = 0
             /\ FetchesStarted' = FetchesStarted
             /\ \A k \in FetchIds : fetches[k].pc = "idle" => fetches'[k].pc = "idle"]_vars

\* after the mount and the teardown, other writers have changed the table
\* twice and the only fetchAppointments call is the one of the mount
C15_Witness ==
    /\ phase = "unmounted"
    /\ external = 2
    /\ store # InitTable
    /\ events = 0
    /\ FetchesStarted = 1

\* C16: within one updateStatus call, no call of the notifier, no call of
\* the channel send and no request exists before the call has resumed from
\* its store write; the step in which they appear starts from the write
\* resolved without error and leaves the snapshot patched: the snapshot of
\* before with the new status on every record of the id.
C16_WriteThenPatchThenSend ==
    [][\A u \in UpdateIds :
          /\ updates'[u].pc \in {"idle", "writing", "written"} =>
                /\ updates'[u].notifies = << >>
                /\ updates'[u].sends = << >>
                /\ updates'[u].requests = << >>
          /\ (updates'[u].notifies # updates[u].notifies
              \/ updates'[u].sends # updates[u].sends
              \/ (updates[u].requests = << >> /\ updates'[u].requests # << >>)) =>
                /\ updates[u].pc = "written"
                /\ WriteSucceeded(updates[u])
                /\ updates'[u].response = updates[u].response
                /\ appointments' = Patch(appointments, updates[u].id, updates[u].newStatus)
                /\ \A i \in 1..Len(appointments') :
                      appointments'[i].id = updates[u].id =>
                         appointments'[i].status = updates[u].newStatus]_vars

\* a request to the provider is in flight; the table and the snapshot hold
\* the new status
C16_Witness ==
    \E u \in UpdateIds :
        /\ updates[u].pc = "sending"
        /\ Len(updates[u].requests) = 1
        /\ WriteSucceeded(updates[u])
        /\ store[updates[u].id].status = updates[u].newStatus
        /\ find(appointments, updates[u].id) # None
        /\ find(appointments, updates[u].id)[1].status = updates[u].newStatus

\* C17: the snapshot changes in two kinds of step only.  The completion of a
\* successful fetch makes it that fetch's result, also when a fetch started
\* later has completed before and whatever patches were on it; the resumption
\* of an updateStatus call from a successful write patches the status of its
\* id on the snapshot of that moment.  So the snapshot is the result of the
\* successful fetch completed last, with the patches made since.
C17_LastCompletedFetchWins ==
    [][/\ \A k \in FetchIds :
             (fetches[k].pc = "answered" /\ fetches'[k].pc = "done"
              /\ ~FetchFailed(fetches[k])) =>
                appointments' = fetches[k].response[1].data[1]
       /\ appointments' # appointments =>
             \/ \E k \in FetchIds :
                   /\ fetches[k].pc = "answered" /\ fetches'[k].pc = "done"
                   /\ ~FetchFailed(fetches[k])
                   /\ updates' = updates
             \/ \E u \in UpdateIds :
                   /\ updates[u].pc = "written" /\ updates'[u].pc # "written"
                   /\ WriteSucceeded(updates[u])
                   /\ fetches' = fetches
                   /\ appointments' =
                         Patch(appointments, updates[u].id, updates[u].newStatus)]_vars

\* the fetch of the mount read the table before another writer changed it and
\* completed after the fetch that the change event started: every event is
\* delivered, both fetches succeeded, and the snapshot is the older result
C17_Witness ==
    /\ fetches[1].pc = "done" /\ ~FetchFailed(fetches[1])
    /\ fetches[2].pc = "done" /\ ~FetchFailed(fetches[2])
    /\ \A u \in UpdateIds : updates[u].pc = "idle"
    /\ external = 1
    /\ events = 0
    /\ phase = "mounted"
    /\ appointments = SelectAll(InitTable, Len(IdOrder))
    /\ appointments # SelectAll(store, Len(IdOrder))

\* nothing is in flight and nothing is pending: every raised event has been
\* delivered, every fetchAppointments call has completed and none failed,
\* every updateStatus call has ended, and one of them patched the snapshot
\* after a successful write; from here on the snapshot changes only if the
\* table changes again or the operator refreshes by hand
QuiescentAfterPatch ==
    /\ phase = "mounted"
    /\ events = 0
    /\ \A k \in FetchIds :
          fetches[k].pc \in {"idle", "done"} /\ ~FetchFailed(fetches[k])
    /\ \A u \in UpdateIds : updates[u].pc \in {"idle", "done"}
    /\ \E u \in UpdateIds :
          /\ updates[u].pc = "done"
          /\ WriteSucceeded(updates[u])
          /\ updates[u].appointment # None

\* C18 as stated: with the table at rest, every change having raised its
\* event and every fetch having succeeded, the registry reconverges after a
\* patch, for every interleaving: once every event is delivered and every
\* call has ended, the snapshot is the table's contents.
C18_AsStated ==
    QuiescentAfterPatch => appointments = SelectAll(store, Len(IdOrder))

\* the fields of a record other than its status
Frame(apt) ==
    <<apt.id, apt.full_name, apt.phone, apt.preferred_date, apt.location>>

\* C19: the step in which updateStatus resumes from a successful write leaves
\* the snapshot of that moment with the same number of records in the same
\* order, every record with its other fields as they were, the status of the
\* records of the id set to newStatus and the status of every other record
\* as it was; a snapshot that no longer holds the id is left as it is,
\* whatever the call found when it started.
C19_PatchFrame ==
    [][\A u \in UpdateIds :
          (updates[u].pc = "written" /\ WriteSucceeded(updates[u])
           /\ updates'[u].pc # "written") =>
             /\ Len(appointments') = Len(appointments)
             /\ \A i \in 1..Len(appointments) :
                   /\ Frame(appointments'[i]) = Frame(appointments[i])
                   /\ appointments'[i].status =
                         IF appointments[i].id = updates[u].id
                         THEN updates[u].newStatus
                         ELSE appointments[i].status
             /\ find(appointments, updates[u].id) = None =>
                   appointments' = appointments]_vars

\* the call found its record in the snapshot; a refresh that completed while
\* the write was in flight took the record away, and the patch did not bring
\* it back
C19_Witness ==
    \E u \in UpdateIds :
        /\ updates[u].pc = "done"
        /\ WriteSucceeded(updates[u])
        /\ updates[u].appointment # None
        /\ find(appointments, updates[u].id) = None
        /\ ~store[updates[u].id].present
        /\ appointments = SelectAll(store, Len(IdOrder))
        /\ Len(appointments) = 1
        /\ \E k \in FetchIds : fetches[k].pc = "done" /\ ~FetchFailed(fetches[k])

\* C20: a call of send makes at most one request to the provider, whatever
\* the provider or the network answers: none when a credential is missing or
\* the destination is no string, otherwise exactly one, built from the
\* normalized destination and the body, and no further one after a
\* non-success answer, an unreadable body or a network failure; notify makes
\* one call of send at most, hence one request at most.
C20_SingleAttempt ==
    /\ probe.pc # "off" =>
          /\ Len(probe.requests) <= 1
          /\ probe.fn = "sendStatusUpdateMessage" =>
                /\ Len(probe.sends) <= 1
                /\ Len(probe.requests) <= Len(probe.sends)
    /\ (probe.pc \in {"await", "done"} /\ probe.fn = "sendWhatsAppMessage") =>
          IF CredentialsMissing \/ probe.to = None
          THEN probe.requests = << >> /\ probe.pc = "done"
          ELSE probe.requests =
                  <<Request(formattedPhone(cleanPhone(probe.to[1])), probe.message)>>
    /\ (probe.pc = "done" /\ probe.reply # None) => Len(probe.requests) = 1

\* the one request of a call of send failed on the network; the call has
\* returned the failure and no second request was made
C20_Witness ==
    /\ probe.pc = "done"
    /\ probe.fn = "sendWhatsAppMessage"
    /\ ~CredentialsMissing
    /\ probe.reply = Some([t |-> "reject", error |-> "NetworkError"])
    /\ Len(probe.requests) = 1
    /\ probe.outcome = Some(Failure("NetworkError"))

\* the record's date is within the seven days from the instant on, both ends
\* included, and its status is pending or confirmed
Upcoming(apt, now) ==
    /\ apt.preferred_date # None
    /\ now <= getTime(apt.preferred_date[1])
    /\ getTime(apt.preferred_date[1]) <= now + 7 * MsPerDay
    /\ apt.status \in {"pending", "confirmed"}

\* view is the records of snapshot at the positions in keep, in the order
\* of the snapshot
SubsequenceAt(view, snapshot, keep) ==
    /\ Len(view) = Cardinality(keep)
    /\ \A j \in 1..Len(view) :
          view[j] = snapshot[CHOOSE i \in keep :
                                Cardinality({k \in keep : k < i}) = j - 1]

\* C21: the rendered upcoming view is the snapshot's records that have a date
\* d with now <= d <= now + 7 days (d taken at midnight UTC) and status
\* pending or confirmed, in the order of the snapshot; after the patch of a
\* status, a record dated within the window, its last instant included,
\* that went from pending to confirmed is in the view as it was before, and
\* one that went to completed or cancelled is not in the view.
C21_UpcomingView ==
    probe.pc \in {"rendered", "patched"} =>
        /\ SubsequenceAt(probe.view, probe.snapshot,
                         {i \in 1..Len(probe.snapshot) :
                             Upcoming(probe.snapshot[i], probe.today)})
        /\ probe.pc = "patched" =>
              \A i \in 1..Len(probe.snapshot) :
                LET old == probe.before[1].snapshot[i]
                    new == probe.snapshot[i] IN
                (/\ new.id = probe.patch[1].id
                 /\ new.preferred_date # None
                 /\ probe.today <= getTime(new.preferred_date[1])
                 /\ getTime(new.preferred_date[1]) <= probe.today + 7 * MsPerDay) =>
                    /\ (old.status = "pending" /\ probe.patch[1].newStatus = "confirmed") =>
                          /\ \E j \in 1..Len(probe.before[1].view) :
                                probe.before[1].view[j] = old
                          /\ \E j \in 1..Len(probe.view) : probe.view[j] = new
                          /\ Len(probe.view) = Len(probe.before[1].view)
                    /\ probe.patch[1].newStatus \in {"completed", "cancelled"} =>
                          \A j \in 1..Len(probe.view) : probe.view[j].id # new.id

\* the newest record is dated exactly seven days after the instant of the
\* render and was confirmed from pending; the older record is dated earlier;
\* the view holds both, the later date first
C21_Witness ==
    /\ probe.pc = "patched"
    /\ probe.fn = "upcomingAppointments"
    /\ Len(probe.snapshot) = 2
    /\ probe.patch = Some([id |-> probe.snapshot[1].id, newStatus |-> "confirmed"])
    /\ probe.before[1].snapshot[1].status = "pending"
    /\ probe.snapshot[1].preferred_date # None
    /\ getTime(probe.snapshot[1].preferred_date[1]) = probe.today + 7 * MsPerDay
    /\ probe.snapshot[2].preferred_date # None
    /\ getTime(probe.snapshot[2].preferred_date[1]) < getTime(probe.snapshot[1].preferred_date[1])
    /\ probe.view = probe.snapshot

\* the positions of the snapshot's records with the status
WithStatus(s) == {i \in 1..Len(appointments) : appointments[i].status = s}

\* C22: in every reachable state the counts and the filtered view are those
\* of the current snapshot: each count is the number of snapshot records
\* with that status, the total is the length of the snapshot, the view
\* filtered by a status is the snapshot's records with that status in the
\* snapshot's order, the view for 'all' is the snapshot, and, every status
\* being one of the four, the four counts sum to the total.
C22_DerivedViews ==
    LET counts == stats(appointments) IN
    /\ counts.total = Len(appointments)
    /\ counts.pending = Cardinality(WithStatus("pending"))
    /\ counts.confirmed = Cardinality(WithStatus("confirmed"))
    /\ counts.completed = Cardinality(WithStatus("completed"))
    /\ counts.cancelled = Cardinality(WithStatus("cancelled"))
    /\ filteredAppointments(appointments, "all") = appointments
    /\ \A s \in Statuses :
          SubsequenceAt(filteredAppointments(appointments, s), appointments, WithStatus(s))
    /\ (\A i \in 1..Len(appointments) : appointments[i].status \in Statuses) =>
          counts.pending + counts.confirmed + counts.completed + counts.cancelled
             = counts.total

\* an update has moved the oldest record to completed: the counts and the
\* filtered views follow the patched snapshot
C22_Witness ==
    /\ \E u \in UpdateIds :
          /\ updates[u].pc = "done"
          /\ WriteSucceeded(updates[u])
          /\ updates[u].newStatus = "completed"
    /\ Len(appointments) = 2
    /\ stats(appointments) = [total |-> 2, pending |-> 0, confirmed |-> 1,
                              completed |-> 1, cancelled |-> 0]
    /\ Len(filteredAppointments(appointments, "completed")) = 1
    /\ filteredAppointments(appointments, "pending") = << >>

\* a fetchAppointments call has sent its query and has not run to its end
InFlight(k) == fetches[k].pc \in {"sent", "answered"}

\* C23 as stated: in every reachable state, refreshing is true whenever a
\* fetchAppointments call is in flight, also when the call of a change event
\* overlaps another call; so the Refresh button, disabled while refreshing,
\* cannot start a call while one is in flight.
C23_AsStated ==
    (\E k \in FetchIds : InFlight(k)) => refreshing

\* C24: loading is true from the construction until the first completion of
\* a fetchAppointments call, by success or by failure, and false in every
\* state after it: it is true exactly while no call has completed, whatever
\* calls are in flight or have ended since.
C24_LoadingClearedOnce ==
    /\ loading = (\A k \in FetchIds : fetches[k].pc # "done")
    /\ phase = "constructed" => loading

\* the first fetch failed and left no rows; a later fetch is in flight with
\* loading still false
C24_Witness ==
    /\ ~loading
    /\ fetches[1].pc = "done" /\ FetchFailed(fetches[1])
    /\ \E k \in FetchIds : InFlight(k)
    /\ refreshing
    /\ appointments = << >>

\* C25: no step of an updateStatus call (its start, the answer of the store,
\* its resumption with the patch or the alert, the settling of its
\* notification) changes error, loading or refreshing: a failed write
\* leaves the error as it was and is reported by the alert only, and a
\* successful write leaves an error of a failed fetch in place.
C25_UpdateLeavesFlags ==
    [][(\E u \in UpdateIds : updates'[u] # updates[u]) =>
          /\ error' = error
          /\ loading' = loading
          /\ refreshing' = refreshing
          /\ \A u \in UpdateIds :
                (updates'[u].pc = "done" /\ WriteFailed(updates'[u])) =>
                   updates'[u].alerted]_vars

\* a refresh has failed over a loaded snapshot and an update has ended on a
\* successful write, patched: the error is the one of the fetch
C25_Witness ==
    /\ error = Some("Failed to load appointments. Please try again.")
    /\ ~loading /\ ~refreshing
    /\ \E k \in FetchIds : fetches[k].pc = "done" /\ FetchFailed(fetches[k])
    /\ \E u \in UpdateIds :
          /\ updates[u].pc = "done"
          /\ WriteSucceeded(updates[u])
          /\ find(appointments, updates[u].id)[1].status = updates[u].newStatus

====
